---- MODULE Spec2Model ----
(***************************************************************************)
(* FCFF valuation engine of the Financial-Visualization-Dashboard          *)
(* (src/FCFF.py, class FCFFModel) and the caller that assembles the        *)
(* assumption set (src/main2.py, ReverseFCFFTab; src/Main.py).             *)
(*                                                                         *)
(* Numbers.  The program computes in IEEE floats (Python float and         *)
(* numpy.float64).  A number is modelled by a pair <<n, d>>:               *)
(*    d > 0           the rational n/d in lowest terms                     *)
(*    <<1, 0>>        +inf        <<-1, 0>>   -inf       <<0, 0>>   NaN    *)
(*    <<0, -1>>       Python's None (a fact get_value did not find)        *)
(* Arithmetic is exact on the rationals (rounding is not modelled) and     *)
(* follows IEEE 754 on the non-finite values; zero is unsigned (+0.0).     *)
(***************************************************************************)
EXTENDS Integers, Sequences, FiniteSets, TLC

VARIABLES bloomberg_data, user_inputs, edits, forecast, valuation, roic,
          n_iter, mc_tax_rate, params, sim_inputs, fair_values, raw_draws, mc_pc,
          tab, window

\* the state of a MonteCarloInputSimulator (src/MC.py)
mc_vars == <<n_iter, mc_tax_rate, params, sim_inputs, fair_values, raw_draws, mc_pc>>

\* the fields of the ReverseFCFFTab and of the StockValuationDashboard that
\* owns it (src/main2.py)
gui_vars == <<tab, window>>

vars == <<bloomberg_data, user_inputs, edits, forecast, valuation, roic, mc_vars,
          gui_vars>>

-----------------------------------------------------------------------------
(* Float arithmetic *)

NaN  == <<0, 0>>
Inf  == <<1, 0>>
NInf == <<-1, 0>>
None == <<0, -1>>

Abs(n) == IF n < 0 THEN -n ELSE n
Sgn(n) == IF n < 0 THEN -1 ELSE IF n > 0 THEN 1 ELSE 0

RECURSIVE GCD(_, _)
GCD(a, b) == IF b = 0 THEN a ELSE GCD(b, a % b)

LCM(a, b) == (a \div GCD(a, b)) * b

Norm(n, d) ==
    IF d = 0 THEN <<Sgn(n), 0>>
    ELSE LET g == GCD(Abs(n), Abs(d))
             s == IF d < 0 THEN -1 ELSE 1
         IN  <<(s * n) \div g, (s * d) \div g>>

R(n, d) == Norm(n, d)
Zero == R(0, 1)
One  == R(1, 1)

IsNone(x)   == x[2] = -1
IsNaN(x)    == x = NaN
IsFinite(x) == x[2] > 0

FNeg(x) == <<-x[1], x[2]>>

FAdd(x, y) ==
    IF x[2] = 0 /\ y[2] = 0 THEN (IF x = y THEN x ELSE NaN)
    ELSE IF x[2] = 0 THEN x
    ELSE IF y[2] = 0 THEN y
    ELSE LET l == LCM(x[2], y[2])
         IN  Norm(x[1] * (l \div x[2]) + y[1] * (l \div y[2]), l)

FSub(x, y) == FAdd(x, FNeg(y))

\* the product in lowest terms; large operands are reduced crosswise before they
\* are multiplied, which keeps the intermediate integers small
FMul(x, y) ==
    IF \/ x[2] <= 0 \/ y[2] <= 0
       \/ (Abs(x[1]) < 32768 /\ Abs(y[1]) < 32768 /\ x[2] < 32768 /\ y[2] < 32768)
    THEN Norm(x[1] * y[1], x[2] * y[2])
    ELSE LET g1 == GCD(Abs(x[1]), y[2])
             g2 == GCD(Abs(y[1]), x[2])
         IN  Norm((x[1] \div g1) * (y[1] \div g2), (x[2] \div g2) * (y[2] \div g1))

\* numpy true division: x/0 is +-inf (NaN for 0/0), no exception
FDiv(x, y) ==
    LET sy == IF y[1] < 0 THEN -1 ELSE 1
    IN  Norm(x[1] * y[2] * sy, x[2] * Abs(y[1]))

\* comparison of two finite numbers
FLe(x, y) == x[1] * y[2] <= y[1] * x[2]

\* IEEE <: false when either side is NaN
FLt(x, y) ==
    IF IsNaN(x) \/ IsNaN(y) THEN FALSE
    ELSE IF x[2] = 0 /\ y[2] = 0 THEN x[1] < y[1]
    ELSE x[1] * y[2] < y[1] * x[2]

-----------------------------------------------------------------------------
(* Results of a call: a returned value or the exception that left it *)

NoCall == [status |-> "none"]

Raise(exc) == [status |-> exc]

-----------------------------------------------------------------------------
(* FCFFModel.generate_dates: 11 yearly dates and the "Terminal Value" label. *)
(* A date is modelled by its year offset, the label by the offset after the  *)
(* last date.                                                                *)

NDates == 11

generate_dates == [i \in 1..NDates |-> i - 1] \o <<NDates>>

dates == generate_dates

\* the DataFrame index: positions 0 .. len(dates) - 1
NRows == Len(dates)
Rows  == 0..(NRows - 1)
\* position of the row labelled "Terminal Value"
TerminalRow == CHOOSE r \in Rows : dates[r + 1] = NDates

-----------------------------------------------------------------------------
(* pandas / numpy primitives used by FCFFModel *)

\* df[col] = values: pandas raises ValueError unless len(values) == len(index)
\* (LengthMatch_Pad: a column that accepted a shorter list and padded it)
LengthMatch_Pad(values) == Len(values) <= NRows

LengthMatch(values) == Len(values) = NRows

\* a column holding the list `values`, position r = values[r]
Col(values) == [r \in Rows |-> IF r + 1 <= Len(values) THEN values[r + 1] ELSE NaN]

\* Series.shift(-1): row r takes the value of row r + 1, the last row NaN
shift_m1(col) == [r \in Rows |-> IF r + 1 \in Rows THEN col[r + 1] ELSE NaN]

\* Series.cumprod() (skipna=True): a NaN row stays NaN and is skipped by the
\* running product.  RunProd(col, r) is <<running product, output rows 0..r>>.
RECURSIVE RunProd(_, _)
RunProd(col, r) ==
    LET prev == IF r = 0 THEN <<One, <<>>>> ELSE RunProd(col, r - 1)
        acc  == IF IsNaN(col[r]) THEN prev[1] ELSE FMul(prev[1], col[r])
    IN  <<acc, Append(prev[2], IF IsNaN(col[r]) THEN NaN ELSE acc)>>

\* (the running product with skipna=False: a NaN row makes all later rows NaN)
RECURSIVE RunProd_NoSkip(_, _)
RunProd_NoSkip(col, r) ==
    LET prev == IF r = 0 THEN <<One, <<>>>> ELSE RunProd_NoSkip(col, r - 1)
        acc  == FMul(prev[1], col[r])
    IN  <<acc, Append(prev[2], acc)>>

cumprod_noskipna(col) == LET out == RunProd_NoSkip(col, NRows - 1)[2] IN [r \in Rows |-> out[r + 1]]

cumprod(col) == LET out == RunProd(col, NRows - 1)[2] IN [r \in Rows |-> out[r + 1]]

\* (the power without the sign: Series ** 1)
pow_1(col) == [r \in Rows |-> col[r]]

\* Series ** -1 (numpy power: 0.0 ** -1 = inf)
pow_m1(col) == [r \in Rows |-> FDiv(One, col[r])]

\* series.iloc[:-1].tolist() + [np.nan]
DropLastAddNaN(col) == [r \in Rows |-> IF r < NRows - 1 THEN col[r] ELSE NaN]

\* np.nansum: the sum of the entries that are not NaN
RECURSIVE NanSumTo(_, _)
NanSumTo(col, r) ==
    LET v == IF IsNaN(col[r]) THEN Zero ELSE col[r]
    IN  IF r = 0 THEN v ELSE FAdd(NanSumTo(col, r - 1), v)

nansum(col) == NanSumTo(col, NRows - 1)

\* list[-1]
Last(s) == s[Len(s)]

-----------------------------------------------------------------------------
(* FCFFModel.build_forecast_df *)

\* revenues = [base]; for growth in revenue_growth: append(revenues[-1] * (1 + growth))
RECURSIVE RevLoop(_, _, _)
RevLoop(base, growth, k) ==
    IF k = 0 THEN <<base>>
    ELSE LET prev == RevLoop(base, growth, k - 1)
         IN  Append(prev, FMul(Last(prev), FAdd(One, growth[k])))

\* (a loop multiplying revenues[0] instead of revenues[-1])
RECURSIVE RevLoop_FromBase(_, _, _)
RevLoop_FromBase(base, growth, k) ==
    IF k = 0 THEN <<base>>
    ELSE Append(RevLoop_FromBase(base, growth, k - 1), FMul(base, FAdd(One, growth[k])))

revenues_from_base(base, growth) == RevLoop_FromBase(base, growth, Len(growth))

revenues(base, growth) == RevLoop(base, growth, Len(growth))

\* df["EBIT"]: the base-year EBIT, then Revenue[1:12] * operating_margin
EBITColumn(ebit_balance, Revenue, operating_margin) ==
    Col(<<ebit_balance>> \o
        [k \in 1..(NRows - 1) |->
            FMul(Revenue[k], IF k <= Len(operating_margin) THEN operating_margin[k] ELSE NaN)])

\* df["EBIT after Tax"]: NaN, then EBIT[1:] * (1 - tax_rate)
EBITafterTaxColumn(EBIT, tax_rate) ==
    Col(<<NaN>> \o
        [k \in 1..(NRows - 1) |->
            FMul(EBIT[k], FSub(One, IF k <= Len(tax_rate) THEN tax_rate[k] ELSE NaN))])

\* df["Reinvestment"]: (Revenue.shift(-1) - Revenue) / Reinvestment Rate without
\* its last row, then EBIT after Tax * Revenue Growth / roic_tv of the terminal row
\* (ReinvestmentColumn_NoLookahead: Revenue - Revenue.shift(1), no lookahead)
ReinvestmentColumn_NoLookahead(Revenue, RRate, EBITaT, RGrowth, roic_tv) ==
    [r \in Rows |->
        IF r < NRows - 1
        THEN FDiv(FSub(Revenue[r], IF r = 0 THEN NaN ELSE Revenue[r - 1]), RRate[r])
        ELSE FDiv(FMul(EBITaT[TerminalRow], RGrowth[TerminalRow]), roic_tv)]

ReinvestmentColumn(Revenue, RRate, EBITaT, RGrowth, roic_tv) ==
    LET Next_Revenue == shift_m1(Revenue)
    IN  [r \in Rows |->
            IF r < NRows - 1
            THEN FDiv(FSub(Next_Revenue[r], Revenue[r]), RRate[r])
            ELSE FDiv(FMul(EBITaT[TerminalRow], RGrowth[TerminalRow]), roic_tv)]

\* df["FCFF"] = (EBIT after Tax - Reinvestment).iloc[:-1] + [nan]
FCFFColumn(EBITaT, Reinv) == DropLastAddNaN([r \in Rows |-> FSub(EBITaT[r], Reinv[r])])

\* df["Discount Factor"] = ((1 + WACC).cumprod() ** -1).iloc[:-1] + [nan]
DiscountFactorColumn(WACC) ==
    DropLastAddNaN(pow_m1(cumprod([r \in Rows |-> FAdd(One, WACC[r])])))

build_forecast_df(bd, ui) ==
    LET rg   == ui.revenue_growth
        om   == ui.operating_margin
        tax  == ui.tax_rate
        rr   == ui.reinvestment_rate
        wacc == ui.wacc
        base == bd.base_year_revenue
        ebit == bd.ebit_balance
        revs == revenues(base, rg)
        RGrowth == Col(<<NaN>> \o rg)
        Revenue == Col(revs)
        EBIT    == EBITColumn(ebit, Revenue, om)
        EBITaT  == EBITafterTaxColumn(EBIT, tax)
        RRate   == Col(<<NaN>> \o rr \o <<NaN>>)
        Reinv   == ReinvestmentColumn(Revenue, RRate, EBITaT, RGrowth, ui.roic_tv)
        FCFF    == FCFFColumn(EBITaT, Reinv)
        WACC    == Col(<<NaN>> \o wacc)
        DF      == DiscountFactorColumn(WACC)
    IN  \* line 97: None * float
        IF Len(rg) > 0 /\ IsNone(base) THEN Raise("TypeError")
        \* lines 99-100
        ELSE IF ~LengthMatch(<<NaN>> \o rg) \/ ~LengthMatch(revs) THEN Raise("ValueError")
        \* line 101: Python float division, then the column's length
        ELSE IF IsNone(ebit) \/ IsNone(base) THEN Raise("TypeError")
        ELSE IF base = Zero THEN Raise("ZeroDivisionError")
        ELSE IF ~LengthMatch(<<FDiv(ebit, base)>> \o om) THEN Raise("ValueError")
        \* line 104
        ELSE IF ~LengthMatch(<<bd.base_year_tax>> \o tax) THEN Raise("ValueError")
        \* line 106
        ELSE IF ~LengthMatch(<<NaN>> \o rr \o <<NaN>>) THEN Raise("ValueError")
        \* line 113
        ELSE IF ~LengthMatch(<<NaN>> \o wacc) THEN Raise("ValueError")
        ELSE [status            |-> "ok",
              Revenue_Growth    |-> RGrowth,
              Revenue           |-> Revenue,
              Operating_Margin  |-> Col(<<FDiv(ebit, base)>> \o om),
              EBIT              |-> EBIT,
              Tax_Rate          |-> Col(<<bd.base_year_tax>> \o tax),
              EBIT_after_Tax    |-> EBITaT,
              Reinvestment_Rate |-> RRate,
              Reinvestment      |-> Reinv,
              FCFF              |-> FCFF,
              WACC              |-> WACC,
              Discount_Factor   |-> DF,
              Discounted_FCFF   |-> DropLastAddNaN([r \in Rows |-> FMul(FCFF[r], DF[r])])]

-----------------------------------------------------------------------------
(* FCFFModel.calculate_valuation *)

\* (EBIT after Tax - Reinvestment of the terminal row) / (wacc[-1] - revenue_growth[-1])
\* (TerminalValue_Year10Rates: the entries [-2] in place of [-1])
TerminalValue_Year10Rates(x, ui) ==
    FDiv(FSub(x.EBIT_after_Tax[TerminalRow], x.Reinvestment[TerminalRow]),
         FSub(ui.wacc[Len(ui.wacc) - 1], ui.revenue_growth[Len(ui.revenue_growth) - 1]))

TerminalValue(x, ui) ==
    FDiv(FSub(x.EBIT_after_Tax[TerminalRow], x.Reinvestment[TerminalRow]),
         FSub(Last(ui.wacc), Last(ui.revenue_growth)))

\* Terminal Value * x.at[x.index[-2], "Discount Factor"]
\* (DiscountedTerminalValue_Compounded: one more compounding by the terminal wacc)
DiscountedTerminalValue_Compounded(tv, x, ui) ==
    FMul(tv, FDiv(x.Discount_Factor[NRows - 2], FAdd(One, Last(ui.wacc))))

DiscountedTerminalValue(tv, x, ui) == FMul(tv, x.Discount_Factor[NRows - 2])

calculate_valuation(bd, ui) ==
    LET x     == build_forecast_df(bd, ui)
        sum   == nansum(x.Discounted_FCFF)
        tvf   == FSub(x.EBIT_after_Tax[TerminalRow], x.Reinvestment[TerminalRow])
        tv    == TerminalValue(x, ui)
        dtv   == DiscountedTerminalValue(tv, x, ui)
        total == FAdd(sum, dtv)
        eq    == FAdd(FSub(total, bd.Total_debt), bd.Cash)
    IN  IF x.status # "ok" THEN x
        \* line 131: float - None, float + None
        ELSE IF IsNone(bd.Total_debt) \/ IsNone(bd.Cash) THEN Raise("TypeError")
        \* line 133: float / None
        ELSE IF IsNone(bd.Shares_outstanding) THEN Raise("TypeError")
        ELSE [status                    |-> "ok",
              Sum_of_Discounted_FCFFs   |-> sum,
              TV_FCFF                   |-> tvf,
              Terminal_Value            |-> tv,
              Discounted_Terminal_Value |-> dtv,
              Total_Firm_Value          |-> total,
              Equity_Value              |-> eq,
              Shares_Outstanding        |-> bd.Shares_outstanding,
              Fair_Value_per_Share      |-> FDiv(eq, bd.Shares_outstanding),
              Market_Price              |-> bd.stock_price]

-----------------------------------------------------------------------------
(* FCFFModel.build_roic_df *)

\* the text "After 10 Years:" in the terminal cell of "Avg Invested Capital"
After10YearsLabel == <<0, -2>>

\* Series.iloc[1:-1].cumsum() (skipna=True): rows 1..r of the running sum, a
\* NaN row staying NaN and skipped.  RunSum(col, r) is <<running sum, rows 1..r>>.
RECURSIVE RunSum(_, _)
RunSum(col, r) ==
    LET prev == IF r = 1 THEN <<Zero, <<>>>> ELSE RunSum(col, r - 1)
        acc  == IF IsNaN(col[r]) THEN prev[1] ELSE FAdd(prev[1], col[r])
    IN  <<acc, Append(prev[2], IF IsNaN(col[r]) THEN NaN ELSE acc)>>

\* (the roll-forward stopping one year short: Year 10 left empty)
InvestedCapitalColumn_Year9(ic, Reinv) ==
    LET cs == RunSum(Reinv, NRows - 3)[2]
    IN  [r \in Rows |-> IF r = 0 THEN ic
                        ELSE IF r <= NRows - 3 THEN FAdd(cs[r], ic)
                        ELSE NaN]

\* invested = [invested_capital] + (Reinvestment.iloc[1:-1].cumsum() +
\* invested_capital).tolist() + [np.nan]: rows 1..10 of the 12 are rolled forward
InvestedCapitalColumn(ic, Reinv) ==
    LET cs == RunSum(Reinv, NRows - 2)[2]
    IN  [r \in Rows |-> IF r = 0 THEN ic
                        ELSE IF r <= NRows - 2 THEN FAdd(cs[r], ic)
                        ELSE NaN]

\* (the average replaced by the closing capital of the year)
AvgInvestedCapitalColumn_Closing(invested) ==
    [r \in Rows |-> IF r = 0 THEN NaN
                    ELSE IF r <= NRows - 2 THEN invested[r]
                    ELSE After10YearsLabel]

\* avg = [np.nan] + ((invested.shift(1) + invested) / 2).iloc[1:-1].tolist()
\*       + ["After 10 Years:"]
AvgInvestedCapitalColumn(invested) ==
    [r \in Rows |-> IF r = 0 THEN NaN
                    ELSE IF r <= NRows - 2
                         THEN FDiv(FAdd(invested[r - 1], invested[r]), R(2, 1))
                    ELSE After10YearsLabel]

\* [np.nan] + (x["EBIT after Tax"][1:-1] / roic_df["Avg Invested Capital"][1:-1])
\* .tolist() + [user_inputs["roic_tv"]]
ROICColumn(EBITaT, avg, roic_tv) ==
    [r \in Rows |-> IF r = 0 THEN NaN
                    ELSE IF r <= NRows - 2 THEN FDiv(EBITaT[r], avg[r])
                    ELSE roic_tv]

\* The "Avg Invested Capital" column holds Python objects (floats and the
\* label), so the division is Python's: a zero average raises ZeroDivisionError.
build_roic_df(bd, ui) ==
    LET x == build_forecast_df(bd, ui)
    IN  IF x.status # "ok" THEN x
        ELSE IF IsNone(bd.invested_capital) THEN Raise("TypeError")
        ELSE
          LET invested == InvestedCapitalColumn(bd.invested_capital, x.Reinvestment)
              avg      == AvgInvestedCapitalColumn(invested)
          IN  IF \E r \in 1..(NRows - 2) : avg[r] = Zero THEN Raise("ZeroDivisionError")
              ELSE [status                     |-> "ok",
                    Invested_Capital           |-> invested,
                    Avg_Invested_Capital       |-> avg,
                    Return_on_Invested_Capital |-> ROICColumn(x.EBIT_after_Tax, avg, ui.roic_tv)]

-----------------------------------------------------------------------------
(* The fact base (FCFFModel.__init__) and the caller's assumption sets *)

\* bloomberg_data as __init__ leaves it; get_value returns None for a field the
\* workbook does not hold.  "Total debt" and base_year_tax are never None: their
\* arithmetic in __init__ would have raised.
FactBase0 ==
    [base_year_revenue  |-> R(4, 1),
     Cash               |-> R(3, 1),
     Total_debt         |-> R(1, 1),
     Shares_outstanding |-> R(2, 1),
     ebit_balance       |-> R(2, 1),
     invested_capital   |-> R(4, 1),
     base_year_tax      |-> R(1, 4),
     stock_price        |-> R(1, 1)]

FactBases ==
    {FactBase0,
     [FactBase0 EXCEPT !.Shares_outstanding = Zero],
     [FactBase0 EXCEPT !.Shares_outstanding = None]}

ListKeys == {"revenue_growth", "operating_margin", "tax_rate", "reinvestment_rate", "wacc"}

\* the values a caller writes into a cell of the assumption set
Vals(key) ==
    CASE key = "revenue_growth"    -> {Zero, One}
      [] key = "operating_margin"  -> {R(1, 4), R(1, 2)}
      [] key = "tax_rate"          -> {Zero, R(1, 4)}
      [] key = "reinvestment_rate" -> {Zero, One, R(2, 1)}
      [] key = "wacc"              -> {R(-1, 2), Zero, One}
      [] key = "roic_tv"           -> {Zero, R(1, 2), One}

Const(n, v) == [k \in 1..n |-> v]

\* assumption sets of the shape of load_default_assumptions: 11 entries per
\* list (years 1..10, terminal), 10 for reinvestment_rate, a scalar roic_tv
FlatThenFading ==
    [k \in 1..NDates |-> IF k <= 5 THEN One ELSE IF k <= 7 THEN R(1, 2) ELSE Zero]

DefaultInputs ==
    {[revenue_growth    |-> g,
      operating_margin  |-> Const(NDates, R(1, 2)),
      tax_rate          |-> Const(NDates, R(1, 4)),
      reinvestment_rate |-> Const(NDates - 1, R(2, 1)),
      wacc              |-> Const(NDates, One),
      roic_tv           |-> R(1, 2)] : g \in {Const(NDates, Zero), FlatThenFading}}

\* how many cells the caller changes before a call
MaxEdits == 1

ValidShape(ui) ==
    /\ Len(ui.revenue_growth) = NDates
    /\ Len(ui.operating_margin) = NDates
    /\ Len(ui.tax_rate) = NDates
    /\ Len(ui.wacc) = NDates
    /\ Len(ui.reinvestment_rate) = NDates - 1

-----------------------------------------------------------------------------
(* State machine *)

\* no dashboard window has been constructed
NoDashboard ==
    /\ tab = [current_stock |-> "none"]
    /\ window = [pc |-> "none"]

\* no MonteCarloInputSimulator has been constructed
NoSimulator ==
    /\ n_iter = 0
    /\ mc_tax_rate = None
    /\ params = << >>
    /\ sim_inputs = << >>
    /\ fair_values = << >>
    /\ raw_draws = << >>
    /\ mc_pc = "none"

\* a fact base and a default assumption set; the fact bases with a zero or
\* missing share count start from the zero-growth defaults only
Init ==
    /\ bloomberg_data \in FactBases
    /\ user_inputs \in DefaultInputs
    /\ bloomberg_data = FactBase0 \/ user_inputs.revenue_growth = Const(NDates, Zero)
    /\ edits = 0
    /\ forecast = NoCall
    /\ valuation = NoCall
    /\ roic = NoCall
    /\ NoSimulator
    /\ NoDashboard

\* the caller sets entry k of one list
SetCell(key, k, v) ==
    /\ edits < MaxEdits
    /\ k \in 1..Len(user_inputs[key])
    /\ user_inputs[key][k] # v
    /\ user_inputs' = [user_inputs EXCEPT ![key][k] = v]
    /\ edits' = edits + 1
    /\ forecast' = NoCall
    /\ valuation' = NoCall
    /\ roic' = NoCall
    /\ UNCHANGED <<gui_vars, bloomberg_data, mc_vars>>

\* the caller sets the scalar roic_tv
SetRoicTv(v) ==
    /\ edits < MaxEdits
    /\ user_inputs.roic_tv # v
    /\ user_inputs' = [user_inputs EXCEPT !.roic_tv = v]
    /\ edits' = edits + 1
    /\ forecast' = NoCall
    /\ valuation' = NoCall
    /\ roic' = NoCall
    /\ UNCHANGED <<gui_vars, bloomberg_data, mc_vars>>

\* the caller passes a list one entry longer (the last entry once more)
AppendValue(key) ==
    /\ edits < MaxEdits
    /\ Len(user_inputs[key]) > 0
    /\ user_inputs' = [user_inputs EXCEPT ![key] = Append(@, Last(@))]
    /\ edits' = edits + 1
    /\ forecast' = NoCall
    /\ valuation' = NoCall
    /\ roic' = NoCall
    /\ UNCHANGED <<gui_vars, bloomberg_data, mc_vars>>

\* the caller passes a list one entry shorter
DropValue(key) ==
    /\ edits < MaxEdits
    /\ Len(user_inputs[key]) > 0
    /\ user_inputs' = [user_inputs EXCEPT ![key] = SubSeq(@, 1, Len(@) - 1)]
    /\ edits' = edits + 1
    /\ forecast' = NoCall
    /\ valuation' = NoCall
    /\ roic' = NoCall
    /\ UNCHANGED <<gui_vars, bloomberg_data, mc_vars>>

\* x, y = fcff.build_forecast_df(user_inputs=user_input), the first call a caller
\* makes with an assumption set
CallBuildForecast ==
    /\ forecast = NoCall
    /\ forecast' = build_forecast_df(bloomberg_data, user_inputs)
    /\ UNCHANGED <<gui_vars, bloomberg_data, user_inputs, edits, valuation, roic, mc_vars>>

\* z = fcff.calculate_valuation(user_inputs=user_input), the caller's next call
\* when the forecast returned
CallCalculateValuation ==
    /\ valuation = NoCall
    /\ forecast.status = "ok"
    /\ valuation' = calculate_valuation(bloomberg_data, user_inputs)
    /\ UNCHANGED <<gui_vars, bloomberg_data, user_inputs, edits, forecast, roic, mc_vars>>

Next ==
    \/ \E key \in ListKeys : \E v \in Vals(key) : \E k \in 1..NDates : SetCell(key, k, v)
    \/ \E v \in Vals("roic_tv") : SetRoicTv(v)
    \/ \E key \in ListKeys : AppendValue(key)
    \/ \E key \in ListKeys : DropValue(key)
    \/ CallBuildForecast
    \/ CallCalculateValuation

Spec == Init /\ [][Next]_vars

-----------------------------------------------------------------------------
(* Discounting: the script run under discount rates that differ between    *)
(* years, positive or not                                                  *)

WaccFading == [k \in 1..NDates |-> IF k <= 5 THEN One ELSE R(1, 2)]

WaccProfiles == {Const(NDates, One), Const(NDates, R(1, 2)), WaccFading}

WaccValues == {R(-1, 2), Zero, R(1, 2), One}

DiscountInit ==
    /\ bloomberg_data = FactBase0
    /\ user_inputs \in {[ui EXCEPT !.wacc = w] : ui \in DefaultInputs, w \in WaccProfiles}
    /\ edits = 0
    /\ forecast = NoCall
    /\ valuation = NoCall
    /\ roic = NoCall
    /\ NoSimulator
    /\ NoDashboard

DiscountNext ==
    \/ \E v \in WaccValues : \E k \in 1..NDates : SetCell("wacc", k, v)
    \/ CallBuildForecast

SpecDiscount == DiscountInit /\ [][DiscountNext]_vars

-----------------------------------------------------------------------------
(* Repeated calls: the three methods called on one FCFFModel with one      *)
(* assumption set, in any order and any number of times (Main.py:22-31,    *)
(* main2.py:391-394)                                                       *)

\* Total Invested Capital of the fact base
ICValues == {R(2, 1), R(4, 1)}

CallsInit ==
    /\ bloomberg_data \in {[FactBase0 EXCEPT !.invested_capital = ic] : ic \in ICValues}
    /\ user_inputs \in DefaultInputs
    /\ user_inputs.revenue_growth = FlatThenFading
    /\ edits = 0
    /\ forecast = NoCall
    /\ valuation = NoCall
    /\ roic = NoCall
    /\ NoSimulator
    /\ NoDashboard

\* (build_forecast_df writing the NaN of the base year into the caller's list)
BuildForecast_InPlace ==
    /\ forecast' = build_forecast_df(bloomberg_data, user_inputs)
    /\ user_inputs' = [user_inputs EXCEPT !.revenue_growth = <<NaN>> \o @]
    /\ UNCHANGED <<gui_vars, bloomberg_data, edits, valuation, roic, mc_vars>>

\* fcff.build_forecast_df(user_inputs=user_input): reads bloomberg_data, dates
\* and the lists, builds new lists and a new frame, assigns no attribute
BuildForecast ==
    /\ forecast' = build_forecast_df(bloomberg_data, user_inputs)
    /\ UNCHANGED <<gui_vars, bloomberg_data, user_inputs, edits, valuation, roic, mc_vars>>

\* fcff.calculate_valuation(user_inputs=user_input)
CalculateValuation ==
    /\ valuation' = calculate_valuation(bloomberg_data, user_inputs)
    /\ UNCHANGED <<gui_vars, bloomberg_data, user_inputs, edits, forecast, roic, mc_vars>>

\* (build_roic_df storing the Year-10 return as the terminal roic_tv)
BuildRoic_Feedback ==
    LET res == build_roic_df(bloomberg_data, user_inputs)
    IN  /\ roic' = res
        /\ user_inputs' = IF res.status = "ok"
                          THEN [user_inputs EXCEPT
                                   !.roic_tv = res.Return_on_Invested_Capital[NRows - 2]]
                          ELSE user_inputs
        /\ UNCHANGED <<gui_vars, bloomberg_data, edits, forecast, valuation, mc_vars>>

\* fcff.build_roic_df(user_inputs=user_input)
BuildRoic ==
    /\ roic' = build_roic_df(bloomberg_data, user_inputs)
    /\ UNCHANGED <<gui_vars, bloomberg_data, user_inputs, edits, forecast, valuation, mc_vars>>

CallsNext ==
    \/ \E v \in Vals("reinvestment_rate") : \E k \in 1..(NDates - 1) :
          SetCell("reinvestment_rate", k, v)
    \/ \E v \in Vals("revenue_growth") : \E k \in {NDates - 1, NDates} :
          SetCell("revenue_growth", k, v)
    \/ \E v \in Vals("roic_tv") : SetRoicTv(v)
    \/ BuildForecast
    \/ CalculateValuation
    \/ BuildRoic

SpecCalls == CallsInit /\ [][CallsNext]_vars

-----------------------------------------------------------------------------
(* MonteCarloInputSimulator (src/MC.py): the sampling configuration, the   *)
(* samplers and the valuation of the sampled assumption sets.  A draw of   *)
(* np.random is a choice from a small set of numbers; raw_draws records    *)
(* the draws of each trial as they left the generator.                     *)

\* self.params as the constructor sets it
DefaultParams ==
    [revenue_growth |->
        [mean |-> R(3, 10), std |-> R(1, 50),
         terminal_mean |-> R(43, 1000), terminal_std |-> R(1, 500),
         structured |-> TRUE, clip_min |-> R(-1, 1), clip_max |-> One],
     operating_margin |->
        [mean |-> R(2, 5), std |-> R(3, 100),
         terminal_mean |-> R(2, 5), terminal_std |-> R(3, 100),
         clip_min |-> R(-1, 1), clip_max |-> One],
     reinvestment_rate |->
        [mean |-> R(2, 1), std |-> R(1, 5), size |-> 10,
         clip_min |-> Zero, clip_max |-> R(3, 1)],
     wacc |->
        [mean |-> R(9, 100), std |-> R(1, 200),
         terminal_mean |-> R(21, 250), terminal_std |-> R(1, 500),
         clip_min |-> R(1, 100), clip_max |-> R(99, 100)],
     roic_tv |->
        [mean |-> R(1, 5), std |-> R(1, 50),
         clip_min |-> R(1, 10), clip_max |-> R(3, 10)]]

\* the tax_rate argument of the constructor: its default and another rate
DefaultTaxRate == R(91, 500)
TaxRates == {DefaultTaxRate, R(1, 4)}

\* how many trials a simulator is constructed with
MaxIter == 2

\* cfg.get(k, default)
CfgGet(cfg, k, default) == IF k \in DOMAIN cfg THEN cfg[k] ELSE default

FMax(x, y) == IF FLt(x, y) THEN y ELSE x
FMin(x, y) == IF FLt(y, x) THEN y ELSE x

\* (a clamp that forgets the upper bound)
clip_lower_only(x, a_min, a_max) == FMax(x, a_min)

\* np.clip(x, a_min, a_max) = minimum(maximum(x, a_min), a_max)
clip(x, a_min, a_max) == FMin(FMax(x, a_min), a_max)

\* np.clip(x, cfg.get("clip_min", -np.inf), cfg.get("clip_max", np.inf))
ClipCfg(x, cfg) == clip(x, CfgGet(cfg, "clip_min", NInf), CfgGet(cfg, "clip_max", Inf))

\* np.linspace(start, stop, num): num evenly spaced points, both ends included
linspace(start, stop, num) ==
    LET step == FDiv(FSub(stop, start), R(num - 1, 1))
    IN  [k \in 1..num |-> IF k = num THEN stop
                          ELSE FAdd(start, FMul(R(k - 1, 1), step))]

\* the years that carry g1 and the points of the fade
Phase1Years == 5
LinspacePoints == 6

\* (the fade keeping its first point, the start g1: linspace(...)[:-1])
structured_growth_fade_from_start(cfg, g1_draw, g_terminal_draw) ==
    LET g1         == ClipCfg(g1_draw, cfg)
        g_terminal == ClipCfg(g_terminal_draw, cfg)
        points     == linspace(g1, g_terminal, LinspacePoints)
    IN  Const(Phase1Years, g1) \o SubSeq(points, 1, LinspacePoints - 1) \o <<g_terminal>>

\* (the terminal draw left unclipped)
structured_growth_terminal_unclipped(cfg, g1_draw, g_terminal_draw) ==
    LET g1     == ClipCfg(g1_draw, cfg)
        points == linspace(g1, g_terminal_draw, LinspacePoints)
    IN  Const(Phase1Years, g1) \o Tail(points) \o <<g_terminal_draw>>

\* _simulate_structured_growth with the two normal draws as arguments
_simulate_structured_growth(cfg, g1_draw, g_terminal_draw) ==
    LET g1         == ClipCfg(g1_draw, cfg)
        g_terminal == ClipCfg(g_terminal_draw, cfg)
        phase1     == Const(Phase1Years, g1)
        phase2     == Tail(linspace(g1, g_terminal, LinspacePoints))
    IN  phase1 \o phase2 \o <<g_terminal>>

\* the yearly draws of wacc and operating_margin, the entries of tax_rate
MainDraws == 10
TaxPeriods == 11

\* which branch of the loop body of simulate_all a key takes
Branch(key, cfg) ==
    IF key = "revenue_growth" /\ CfgGet(cfg, "structured", FALSE) THEN "structured"
    ELSE IF key \in {"wacc", "operating_margin"} THEN "terminal"
    ELSE IF key = "reinvestment_rate" THEN "lognormal"
    ELSE "scalar"

\* the entries of cfg a branch reads with cfg[...]: a missing one is a KeyError
RequiredKeys(branch) ==
    CASE branch = "structured" -> {"mean", "std", "terminal_mean", "terminal_std"}
      [] branch = "terminal"   -> {"mean", "std", "terminal_mean", "terminal_std"}
      [] branch = "lognormal"  -> {"mean", "std", "size"}
      [] branch = "scalar"     -> {"mean", "std"}

\* sim_input[key] from the raw draws d of the key's branch:
\*   structured: <<g1, g_terminal>>       terminal: <<main_vals, terminal>>
\*   lognormal:  the cfg["size"] draws    scalar:   the draw
Sample(key, cfg, d) ==
    LET branch == Branch(key, cfg)
    IN  CASE branch = "structured" -> _simulate_structured_growth(cfg, d[1], d[2])
          [] branch = "terminal" ->
                [k \in 1..MainDraws |-> ClipCfg(d[1][k], cfg)] \o <<ClipCfg(d[2], cfg)>>
          [] branch = "lognormal" ->
                [k \in 1..cfg.size |-> ClipCfg(d[k], cfg)]
          [] branch = "scalar" ->
                IF "clip_min" \in DOMAIN cfg \/ "clip_max" \in DOMAIN cfg
                THEN ClipCfg(d, cfg)
                ELSE d

\* (a sim_input whose tax_rate is what the loop sampled under that key)
SimInput_TaxSampled(prm, tax, draws) ==
    [key \in DOMAIN prm \cup {"tax_rate"} |->
        IF key \in DOMAIN prm THEN Sample(key, prm[key], draws[key])
        ELSE Const(TaxPeriods, tax)]

\* one pass of the loop body of simulate_all: a sim_input from the draws of a trial
SimInput(prm, tax, draws) ==
    [key \in DOMAIN prm \cup {"tax_rate"} |->
        IF key = "tax_rate" THEN Const(TaxPeriods, tax)
        ELSE Sample(key, prm[key], draws[key])]

\* The values a draw takes.  "high" lies above the default upper bound of the
\* key and "low" below its lower bound, "mid" and "alt" inside; a lognormal
\* draw is positive, so its "low" lies inside too.  "par" is "mid" with the
\* terminal wacc at the terminal growth.
DrawValue(key, pos, level) ==
    CASE key = "revenue_growth" ->
            (CASE level = "low"  -> R(-2, 1)
               [] level \in {"mid", "par"} -> IF pos = "main" THEN Zero ELSE R(5, 8)
               [] level = "alt"  -> Zero
               [] level = "high" -> R(2, 1))
      [] key = "operating_margin" ->
            (CASE level = "low"  -> R(-2, 1)
               [] level \in {"mid", "par"} -> R(1, 2)
               [] level = "alt"  -> R(1, 4)
               [] level = "high" -> R(2, 1))
      [] key = "wacc" ->
            (CASE level = "low"  -> R(-1, 2)
               [] level = "mid"  -> IF pos = "main" THEN R(1, 2) ELSE R(3, 4)
               [] level = "par"  -> IF pos = "main" THEN R(1, 2) ELSE R(5, 8)
               [] level = "alt"  -> IF pos = "main" THEN R(1, 2) ELSE R(5, 8)
               [] level = "high" -> One)
      [] key = "reinvestment_rate" ->
            (CASE level = "low"  -> R(1, 2)
               [] level \in {"mid", "par"} -> R(2, 1)
               [] level = "alt"  -> One
               [] level = "high" -> R(4, 1))
      [] key = "roic_tv" ->
            (CASE level = "low"  -> Zero
               [] level \in {"mid", "par"} -> R(1, 4)
               [] level = "alt"  -> R(1, 8)
               [] level = "high" -> R(1, 2))
      [] OTHER ->
            (CASE level = "low"  -> R(-1, 1)
               [] level \in {"mid", "par"} -> R(1, 2)
               [] level = "alt"  -> R(1, 4)
               [] level = "high" -> R(2, 1))

\* the levels <<a, b>> of the draws of a trial: inside the default bounds, and
\* on either side of them
RunLevels == {<<"mid", "mid">>, <<"mid", "alt">>, <<"mid", "par">>}
WideLevels ==
    {<<"mid", "mid">>, <<"low", "low">>, <<"low", "high">>,
     <<"high", "low">>, <<"high", "high">>}

\* n draws of one call of np.random: level a in the odd places, b in the even
DrawVector(key, n, a, b) ==
    [k \in 1..n |-> DrawValue(key, "main", IF k % 2 = 1 THEN a ELSE b)]

\* np.random.lognormal(mean=np.log(cfg["mean"]), ...): np.log(0) is -inf and
\* every draw exp(-inf) = 0; np.log of a negative mean is NaN and so is every draw
LognormalVector(key, cfg, a, b) ==
    IF cfg.mean = Zero THEN Const(cfg.size, Zero)
    ELSE IF FLt(cfg.mean, Zero) THEN Const(cfg.size, NaN)
    ELSE DrawVector(key, cfg.size, a, b)

\* the draws np.random hands to the branch of a key in one trial
RawDraw(key, cfg, a, b) ==
    LET branch == Branch(key, cfg)
    IN  CASE branch = "structured" ->
                <<DrawValue(key, "main", a), DrawValue(key, "terminal", b)>>
          [] branch = "terminal" ->
                <<DrawVector(key, MainDraws, a, b), DrawValue(key, "terminal", b)>>
          [] branch = "lognormal" -> LognormalVector(key, cfg, a, b)
          [] branch = "scalar"    -> DrawValue(key, "main", b)

TrialDraws(prm, a, b) == [key \in DOMAIN prm |-> RawDraw(key, prm[key], a, b)]

\* simulate_all with the draws of its n trials
Simulations(prm, tax, draws) ==
    [t \in 1..Len(draws) |-> SimInput(prm, tax, draws[t])]

\* the deviations np.random is called with for a key
Deviations(branch) ==
    IF branch \in {"structured", "terminal"} THEN {"std", "terminal_std"} ELSE {"std"}

\* the exception that leaves simulate_all, "ok" when there is none: the KeyError
\* of a cfg[...], the ValueError of np.random for a negative scale or sigma
SamplingStatus(prm) ==
    IF \E key \in DOMAIN prm :
          ~(RequiredKeys(Branch(key, prm[key])) \subseteq DOMAIN prm[key])
    THEN "KeyError"
    ELSE IF \E key \in DOMAIN prm : \E dev \in Deviations(Branch(key, prm[key])) :
               FLt(prm[key][dev], Zero)
    THEN "ValueError"
    ELSE "ok"

\* the state after lines 9-42 of __init__: attributes set, nothing sampled yet
MCInit ==
    /\ bloomberg_data = FactBase0
    /\ user_inputs \in DefaultInputs
    /\ user_inputs.revenue_growth = FlatThenFading
    /\ edits = 0
    /\ forecast = NoCall
    /\ valuation = NoCall
    /\ roic = NoCall
    /\ n_iter \in 1..MaxIter
    /\ mc_tax_rate \in TaxRates
    /\ params = DefaultParams
    /\ sim_inputs = << >>
    /\ fair_values = << >>
    /\ raw_draws = << >>
    /\ mc_pc = "init"
    /\ NoDashboard

\* (simulate_all storing the clipped roic_tv of the last trial as the new mean)
SimulateAll_AdaptsMean(levels) ==
    /\ mc_pc \in {"init", "ready"}
    /\ SamplingStatus(params) = "ok"
    /\ \E lv \in [1..n_iter -> levels] :
          /\ raw_draws' = [t \in 1..n_iter |-> TrialDraws(params, lv[t][1], lv[t][2])]
          /\ sim_inputs' = Simulations(params, mc_tax_rate, raw_draws')
    /\ params' = [params EXCEPT !["roic_tv"].mean = sim_inputs'[n_iter]["roic_tv"]]
    /\ mc_pc' = IF mc_pc = "init" THEN "constructing" ELSE "resampled"
    /\ UNCHANGED <<gui_vars, bloomberg_data, user_inputs, edits, forecast, valuation, roic,
                   n_iter, mc_tax_rate, fair_values>>

\* self.sim_inputs = self.simulate_all() (line 43 of __init__, or the statement
\* of a client whose simulator holds the fair values of its sample): n_iter
\* passes of the loop body; a KeyError leaves the attributes as they were
SimulateAll(levels) ==
    /\ mc_pc \in {"init", "ready"}
    /\ IF SamplingStatus(params) # "ok"
       THEN /\ mc_pc' = SamplingStatus(params)
            /\ UNCHANGED <<sim_inputs, raw_draws>>
       ELSE /\ \E lv \in [1..n_iter -> levels] :
                  /\ raw_draws' = [t \in 1..n_iter |->
                                      TrialDraws(params, lv[t][1], lv[t][2])]
                  /\ sim_inputs' = Simulations(params, mc_tax_rate, raw_draws')
            /\ mc_pc' = IF mc_pc = "init" THEN "constructing" ELSE "resampled"
    /\ UNCHANGED <<gui_vars, bloomberg_data, user_inputs, edits, forecast, valuation, roic,
                   n_iter, mc_tax_rate, params, fair_values>>

\* (calculate_mc whose trials see the cash of the fact base grow by one with
\* every trial valued before them)
Valuations_Carry(bd, sims) ==
    [t \in 1..Len(sims) |->
        calculate_valuation([bd EXCEPT !["Cash"] = FAdd(@, R(t - 1, 1))], sims[t])]

\* calculate_mc: the valuation of each sampled assumption set, in order
Valuations(bd, sims) == [t \in 1..Len(sims) |-> calculate_valuation(bd, sims[t])]

\* self.fair_values = self.calculate_mc() (line 44, or a client's statement,
\* with or without a new sample); an exception of calculate_valuation leaves
\* calculate_mc
CalculateMC ==
    /\ mc_pc \in {"constructing", "resampled", "ready"}
    /\ \E vals \in {Valuations(bloomberg_data, sim_inputs)} :
          IF \E t \in 1..Len(vals) : vals[t].status # "ok"
          THEN /\ mc_pc' = vals[CHOOSE t \in 1..Len(vals) :
                                  /\ vals[t].status # "ok"
                                  /\ \A u \in 1..(t - 1) : vals[u].status = "ok"].status
               /\ UNCHANGED fair_values
          ELSE /\ fair_values' = [t \in 1..Len(vals) |-> vals[t].Fair_Value_per_Share]
               /\ mc_pc' = "ready"
    /\ UNCHANGED <<gui_vars, bloomberg_data, user_inputs, edits, forecast, valuation, roic,
                   n_iter, mc_tax_rate, params, sim_inputs, raw_draws>>

\* the orders in which n trials can be evaluated
TrialOrders(n) == {p \in [1..n -> 1..n] : \A i, j \in 1..n : p[i] = p[j] => i = j}

\* a client that puts the sampled sets in another order and values them again:
\* mc.sim_inputs = [mc.sim_inputs[i] for i in p]; mc.fair_values = mc.calculate_mc()
CalculateMCReordered ==
    /\ mc_pc = "ready"
    /\ \E p \in TrialOrders(n_iter) :
          /\ sim_inputs' = [t \in 1..n_iter |-> sim_inputs[p[t]]]
          /\ raw_draws' = [t \in 1..n_iter |-> raw_draws[p[t]]]
    /\ \E vals \in {Valuations(bloomberg_data, sim_inputs')} :
          /\ \A t \in 1..Len(vals) : vals[t].status = "ok"
          /\ fair_values' = [t \in 1..Len(vals) |-> vals[t].Fair_Value_per_Share]
    /\ mc_pc' = "reordered"
    /\ UNCHANGED <<gui_vars, bloomberg_data, user_inputs, edits, forecast, valuation, roic,
                   n_iter, mc_tax_rate, params>>

MCNext ==
    \/ SimulateAll(RunLevels)
    \/ CalculateMC
    \/ CalculateMCReordered

\* the constructor and a client that samples and values again, or values the
\* sample in another order
SpecMC == MCInit /\ [][MCNext]_vars

-----------------------------------------------------------------------------
(* A client of a constructed simulator: set_param calls, then a new sample  *)

\* the set_param calls of the client, as <<key, kwargs>>: degenerate bounds,
\* the structured flag switched off, a lower bound above the upper one, new
\* keys bounded on one side, on no side, and without a mean, another size of
\* reinvestment_rate, and a distribution for the key "tax_rate"
SetParamCalls ==
    { <<"revenue_growth", [clip_min |-> R(1, 4), clip_max |-> R(1, 4)]>>,
      <<"revenue_growth", [structured |-> FALSE]>>,
      <<"wacc", [clip_min |-> One]>>,
      <<"beta", [mean |-> Zero, std |-> One, clip_min |-> Zero]>>,
      <<"gamma", [mean |-> Zero, std |-> One]>>,
      <<"delta", [clip_max |-> One]>>,
      <<"reinvestment_rate", [size |-> 11]>>,
      <<"tax_rate", [mean |-> R(1, 2), std |-> One]>> }

\* (set_param that also discards the sample and the fair values)
set_param_discards(key, kwargs) ==
    /\ mc_pc = "ready"
    /\ edits < MaxEdits
    /\ edits' = edits + 1
    /\ params' = IF key \in DOMAIN params
                 THEN [params EXCEPT ![key] = kwargs @@ @]
                 ELSE params @@ (key :> kwargs)
    /\ sim_inputs' = << >>
    /\ fair_values' = << >>
    /\ UNCHANGED <<gui_vars, bloomberg_data, user_inputs, forecast, valuation, roic,
                   n_iter, mc_tax_rate, raw_draws, mc_pc>>

\* set_param(key, **kwargs): an entry for a new key, then dict.update
set_param(key, kwargs) ==
    /\ mc_pc = "ready"
    /\ edits < MaxEdits
    /\ edits' = edits + 1
    /\ params' = IF key \in DOMAIN params
                 THEN [params EXCEPT ![key] = kwargs @@ @]
                 ELSE params @@ (key :> kwargs)
    /\ UNCHANGED <<gui_vars, bloomberg_data, user_inputs, forecast, valuation, roic,
                   n_iter, mc_tax_rate, sim_inputs, fair_values, raw_draws, mc_pc>>

\* the simulator as its constructor leaves it, its draws at their "mid" level
SamplerInit ==
    /\ bloomberg_data = FactBase0
    /\ user_inputs \in DefaultInputs
    /\ user_inputs.revenue_growth = FlatThenFading
    /\ edits = 0
    /\ forecast = NoCall
    /\ valuation = NoCall
    /\ roic = NoCall
    /\ n_iter \in 1..MaxIter
    /\ mc_tax_rate \in TaxRates
    /\ params = DefaultParams
    /\ raw_draws = [t \in 1..n_iter |-> TrialDraws(DefaultParams, "mid", "mid")]
    /\ sim_inputs = Simulations(DefaultParams, mc_tax_rate, raw_draws)
    /\ fair_values = [t \in 1..n_iter |->
                         Valuations(bloomberg_data, sim_inputs)[t].Fair_Value_per_Share]
    /\ mc_pc = "ready"
    /\ NoDashboard

SamplerNext ==
    \/ \E call \in SetParamCalls : set_param(call[1], call[2])
    \/ SimulateAll(WideLevels)

\* set_param calls on a constructed simulator, then simulate_all
SpecSampler == SamplerInit /\ [][SamplerNext]_vars

-----------------------------------------------------------------------------
(* A client that reconfigures a constructed simulator and runs it again    *)

\* the set_param calls of this client: a lognormal mean of zero, a negative
\* one, a negative deviation, and another mean of roic_tv
RerunCalls ==
    { <<"reinvestment_rate", [mean |-> Zero]>>,
      <<"reinvestment_rate", [mean |-> R(-1, 1)]>>,
      <<"reinvestment_rate", [std |-> R(-1, 5)]>>,
      <<"roic_tv", [mean |-> R(1, 4)]>> }

\* the levels of the draws of a rerun
RerunLevels == {<<"mid", "mid">>, <<"mid", "alt">>}

RerunNext ==
    \/ \E call \in RerunCalls : set_param(call[1], call[2])
    \/ SimulateAll(RerunLevels)
    \/ CalculateMC

\* set_param, simulate_all and calculate_mc on a constructed simulator
SpecRerun == SamplerInit /\ [][RerunNext]_vars

-----------------------------------------------------------------------------
(* The dashboard window (src/main2.py): the ReverseFCFFTab with its table   *)
(* of input cells and its per-company store of inputs, and the              *)
(* StockValuationDashboard that owns the tabs.  The text of a cell is       *)
(* modelled by the number it spells; two more values stand for an empty     *)
(* cell and for a text that is no number.                                   *)

Stocks == {"MSFT", "NVDA"}

\* the text "" of a cell and a text float() rejects
Blank      == <<0, -3>>
NotANumber == <<0, -4>>

\* user_inputs[stock] is None
NoInputs == [status |-> "None"]

\* save_current_inputs raised while it read the table
ParseError == [status |-> "ValueError"]

\* the list-valued rows of the table that hold inputs, and their input columns
PercentageRows == {"revenue_growth", "operating_margin", "tax_rate"}
FloatRows      == {"reinvestment_rate", "wacc"}
InputColumns(row) == IF row = "reinvestment_rate" THEN NDates - 1 ELSE NDates

\* load_default_assumptions: the assumption set of a stock
DefaultAssumptions(stock) ==
    IF stock = "NVDA"
    THEN [revenue_growth    |-> Const(5, R(1, 10)) \o
                                <<R(493, 5000), R(243, 2500), R(429, 5000),
                                  R(161, 2500), R(43, 1000), R(43, 1000)>>,
          operating_margin  |-> Const(11, R(9, 20)),
          tax_rate          |-> Const(11, R(71, 500)),
          reinvestment_rate |-> Const(10, R(2, 1)),
          wacc              |-> Const(5, R(49, 500)) \o
                                <<R(119, 1250), R(231, 2500), R(56, 625),
                                  R(217, 2500), R(21, 250), R(21, 250)>>,
          roic_tv           |-> R(1, 5)]
    ELSE [revenue_growth    |-> Const(5, R(3, 20)) \o
                                <<R(643, 5000), R(67, 625), R(429, 5000),
                                  R(161, 2500), R(43, 1000), R(43, 1000)>>,
          operating_margin  |-> Const(11, R(9, 20)),
          tax_rate          |-> Const(11, R(91, 500)),
          reinvestment_rate |-> Const(10, R(2, 1)),
          wacc              |-> Const(5, R(49, 500)) \o
                                <<R(119, 1250), R(231, 2500), R(56, 625),
                                  R(217, 2500), R(21, 250), R(21, 250)>>,
          roic_tv           |-> R(1, 5)]

\* f"{v:.4f}": the decimal with four places nearest to v
Format4(v) ==
    IF ~IsFinite(v) THEN v
    ELSE LET q == (2 * Abs(v[1]) * 10000 + v[2]) \div (2 * v[2])
         IN  R(Sgn(v[1]) * q, 10000)

\* the value parse_percentage_row appends for a cell: a number above 1 in
\* absolute value is taken as a percentage
PercentageValue(text) ==
    IF FLt(One, R(Abs(text[1]), text[2])) THEN FDiv(text, R(100, 1)) ELSE text

IsNumberText(text) == text # Blank /\ text # NotANumber

\* the try block of save_current_inputs: the inputs the table spells, or the
\* ValueError of the first cell that is empty or no number
ReadTable(table) ==
    IF \/ \E row \in PercentageRows \cup FloatRows :
             \E col \in 1..InputColumns(row) : ~IsNumberText(table[row][col])
       \/ ~IsNumberText(table["roic_tv"])
    THEN ParseError
    ELSE [row \in PercentageRows \cup FloatRows \cup {"roic_tv"} |->
             IF row \in PercentageRows
             THEN [col \in 1..InputColumns(row) |-> PercentageValue(table[row][col])]
             ELSE table[row]]

\* save_current_inputs: the inputs go to user_inputs[current_stock]; an
\* exception is printed and swallowed
save_current_inputs(t) ==
    IF ReadTable(t.table) = ParseError THEN t
    ELSE [t EXCEPT !.user_inputs[t.current_stock] = ReadTable(t.table)]

\* set_input_values: every input cell is set to the formatted value
set_input_values(inputs) ==
    [row \in PercentageRows \cup FloatRows \cup {"roic_tv"} |->
        IF row = "roic_tv" THEN Format4(inputs[row])
        ELSE [col \in 1..InputColumns(row) |-> Format4(inputs[row][col])]]

\* load_inputs: the saved inputs of the stock, or its default assumptions
load_inputs(t, stock) ==
    [t EXCEPT !.table = IF t.user_inputs[stock] # NoInputs
                        THEN set_input_values(t.user_inputs[stock])
                        ELSE set_input_values(DefaultAssumptions(stock))]

\* what the fair value label shows: the valuation of an input set for a stock
\* (the valuation itself is calculate_valuation above; here only its
\* arguments matter)
FairValueOf(stock, inputs) == [stock |-> stock, inputs |-> inputs]

\* calculate_fair_value: save the table, value user_inputs[current_stock],
\* write the results (the terminal ROIC cell among them) and the label; any
\* exception of the calculation is shown in a message box
calculate_fair_value(t) ==
    LET saved      == save_current_inputs(t)
        user_input == saved.user_inputs[saved.current_stock]
    IN  IF user_input = NoInputs
        THEN [saved EXCEPT !.warned = TRUE, !.valued = NoInputs]
        ELSE [saved EXCEPT !.table["roic_tv"] = Format4(user_input["roic_tv"]),
                           !.fair_value_label =
                               FairValueOf(saved.current_stock, user_input),
                           !.valued = user_input,
                           !.warned = FALSE]

\* (update_stock that records the stock and leaves the tabs as they are)
update_stock_NoRefresh(w, stock) ==
    IF stock # w.stock THEN [w EXCEPT !.stock = stock] ELSE w

\* StockValuationDashboard.update_stock with update_all_tabs
update_stock(w, stock) ==
    IF stock # w.stock
    THEN [w EXCEPT !.stock = stock, !.mc_tab_enabled = (stock = "NVDA")]
    ELSE w

\* ReverseFCFFTab.update_company for the stock the combo box shows; first is
\* true for the call of the constructor, when the tab has no fcff yet
update_company(t, stock, first) ==
    LET switched == [t EXCEPT !.current_stock = stock]
        saved    == IF ~first THEN save_current_inputs(switched) ELSE switched
        loaded   == load_inputs(saved, stock)
    IN  calculate_fair_value(loaded)

\* ReverseFCFFTab.__init__ up to setup_ui: no inputs stored, an empty table
NewTab ==
    [current_stock    |-> "none",
     user_inputs      |-> [s \in Stocks |-> NoInputs],
     table            |-> [row \in PercentageRows \cup FloatRows \cup {"roic_tv"} |->
                              IF row = "roic_tv" THEN Blank
                              ELSE Const(InputColumns(row), Blank)],
     fair_value_label |-> NoInputs,
     valued           |-> NoInputs,
     warned           |-> FALSE,
     last_op          |-> "construct"]

\* StockValuationDashboard.__init__: stock "MSFT", the tabs, update_all_tabs
GUIInit ==
    /\ bloomberg_data = FactBase0
    /\ user_inputs \in DefaultInputs
    /\ user_inputs.revenue_growth = FlatThenFading
    /\ edits = 0
    /\ forecast = NoCall
    /\ valuation = NoCall
    /\ roic = NoCall
    /\ NoSimulator
    /\ tab = calculate_fair_value(update_company(NewTab, "MSFT", TRUE))
    /\ window = [pc |-> "up", stock |-> "MSFT", mc_tab_enabled |-> FALSE,
                 simulated_for |-> "none"]

\* the texts a user types into a cell
TypedTexts == {R(1, 4), R(3, 2), R(6173, 50000), Blank, NotANumber}
TypedRows  == {"revenue_growth", "reinvestment_rate", "roic_tv"}

\* the user edits an input cell of the table
TypeCell(row, col, text) ==
    /\ window.pc = "up"
    /\ edits < MaxEdits
    /\ edits' = edits + 1
    /\ tab' = [tab EXCEPT !.table = IF row = "roic_tv"
                                    THEN [@ EXCEPT ![row] = text]
                                    ELSE [@ EXCEPT ![row][col] = text],
                          !.last_op = "type"]
    /\ UNCHANGED <<window, bloomberg_data, user_inputs, forecast, valuation, roic,
                   mc_vars>>

\* the user picks the other company in the combo box: currentTextChanged
\* calls update_company, which calls update_stock of the window
SelectCompany(stock) ==
    /\ window.pc = "up"
    /\ stock # tab.current_stock
    /\ tab' = [update_company(tab, stock, FALSE) EXCEPT !.last_op = "select"]
    /\ window' = update_stock(window, stock)
    /\ UNCHANGED <<bloomberg_data, user_inputs, edits, forecast, valuation, roic,
                   mc_vars>>

\* the user clicks the calculate button
ClickCalculate ==
    /\ window.pc = "up"
    /\ tab' = [calculate_fair_value(tab) EXCEPT !.last_op = "calculate"]
    /\ UNCHANGED <<window, bloomberg_data, user_inputs, edits, forecast, valuation,
                   roic, mc_vars>>

\* the user clicks the run button of the Monte Carlo tab, which a disabled
\* tab does not allow: run_simulation values NVDA
RunSimulation ==
    /\ window.pc = "up"
    /\ window.mc_tab_enabled
    /\ window' = [window EXCEPT !.simulated_for = tab.current_stock]
    /\ tab' = [tab EXCEPT !.last_op = "simulate"]
    /\ UNCHANGED <<bloomberg_data, user_inputs, edits, forecast, valuation, roic,
                   mc_vars>>

GUINext ==
    \/ \E row \in TypedRows : \E text \in TypedTexts : TypeCell(row, 1, text)
    \/ \E stock \in Stocks : SelectCompany(stock)
    \/ ClickCalculate
    \/ RunSimulation

\* the events of a user on the constructed dashboard
SpecGUI == GUIInit /\ [][GUINext]_vars

-----------------------------------------------------------------------------
(* Reference values, computed from the fact base and the assumption set by  *)
(* the formulas of the specification (periods 1..10 and 11 = terminal)      *)

Years == 1..(NDates - 1)
TerminalPeriod == NDates

\* <<1, (1 + s[1]), (1 + s[1]) * (1 + s[2]), ...>>: entry i + 1 is the product
\* of the first i factors
RECURSIVE Products(_, _)
Products(s, i) ==
    IF i = 0 THEN <<One>>
    ELSE LET prev == Products(s, i - 1)
         IN  Append(prev, FMul(prev[i], FAdd(One, s[i])))

RefRevenue ==
    LET prod == Products(user_inputs.revenue_growth, TerminalPeriod)
    IN  [i \in 0..TerminalPeriod |-> FMul(bloomberg_data.base_year_revenue, prod[i + 1])]

RefEBITafterTax ==
    LET rev == RefRevenue
    IN  [i \in 1..TerminalPeriod |->
            FMul(FMul(rev[i], user_inputs.operating_margin[i]),
                 FSub(One, user_inputs.tax_rate[i]))]

RefReinvestment ==
    LET rev == RefRevenue
        eat == RefEBITafterTax
    IN  [i \in 1..TerminalPeriod |->
            IF i \in Years
            THEN FDiv(FSub(rev[i + 1], rev[i]), user_inputs.reinvestment_rate[i])
            ELSE FDiv(FMul(eat[i], user_inputs.revenue_growth[i]), user_inputs.roic_tv)]

RefDiscountFactor ==
    LET prod == Products(user_inputs.wacc, NDates - 1)
    IN  [i \in Years |-> FDiv(One, prod[i + 1])]

\* the sum of col[1..i], a NaN entry counting 0
RECURSIVE SumYears(_, _)
SumYears(col, i) ==
    IF i = 0 THEN Zero
    ELSE FAdd(SumYears(col, i - 1), IF IsNaN(col[i]) THEN Zero ELSE col[i])

Present(v) == ~IsNaN(v)

-----
(* Claims *)

\* C1: a returned forecast has Revenue[0] = base_year_revenue and
\* Revenue[i] = Revenue[i-1] * (1 + revenue_growth[i]) for i = 1..10 and the
\* terminal period 11; with every growth rate 0 all 12 rows equal base_year_revenue.
C1_RevenueCompounds ==
    forecast.status = "ok" =>
      LET ref == RefRevenue
      IN
        /\ forecast.Revenue[0] = bloomberg_data.base_year_revenue
        /\ \A i \in 1..TerminalPeriod :
              /\ forecast.Revenue[i] =
                    FMul(forecast.Revenue[i - 1], FAdd(One, user_inputs.revenue_growth[i]))
              /\ forecast.Revenue[i] = ref[i]
        /\ (\A i \in 1..TerminalPeriod : user_inputs.revenue_growth[i] = Zero)
              => /\ DOMAIN forecast.Revenue = 0..TerminalPeriod
                 /\ \A r \in 0..TerminalPeriod :
                        forecast.Revenue[r] = bloomberg_data.base_year_revenue

\* a forecast of revenue that grows at rates that differ between periods
C1_Witness ==
    /\ forecast.status = "ok"
    /\ \E i, j \in 1..TerminalPeriod :
          /\ i > 1
          /\ user_inputs.revenue_growth[i] # Zero
          /\ user_inputs.revenue_growth[j] # user_inputs.revenue_growth[i]
    /\ forecast.Revenue[TerminalPeriod] # forecast.Revenue[1]

\* C2: in a returned forecast Reinvestment[i] = (Revenue[i+1] - Revenue[i]) /
\* reinvestment_rate[i] for the years i = 1..10, the terminal Reinvestment is
\* EBIT_after_tax[terminal] * revenue_growth[terminal] / roic_tv, and
\* FCFF[i] = EBIT_after_tax[i] - Reinvestment[i] for i = 1..10.
C2_ReinvestmentAndFCFF ==
    forecast.status = "ok" =>
      LET reinv == RefReinvestment
          eat   == RefEBITafterTax
      IN
        /\ \A i \in Years :
              /\ forecast.Reinvestment[i] = reinv[i]
              /\ forecast.Reinvestment[i] =
                    FDiv(FSub(forecast.Revenue[i + 1], forecast.Revenue[i]),
                         user_inputs.reinvestment_rate[i])
              /\ forecast.FCFF[i] = FSub(eat[i], reinv[i])
              /\ forecast.FCFF[i] = FSub(forecast.EBIT_after_Tax[i], forecast.Reinvestment[i])
        /\ forecast.Reinvestment[TerminalPeriod] = reinv[TerminalPeriod]
        /\ forecast.Reinvestment[TerminalPeriod] =
              FDiv(FMul(forecast.EBIT_after_Tax[TerminalPeriod],
                        user_inputs.revenue_growth[TerminalPeriod]),
                   user_inputs.roic_tv)

\* a forecast with growing revenue, reinvestment rates that differ between years
\* and finite, non-zero reinvestment
C2_Witness ==
    /\ forecast.status = "ok"
    /\ \E i, j \in Years :
          /\ user_inputs.reinvestment_rate[i] # user_inputs.reinvestment_rate[j]
          /\ user_inputs.reinvestment_rate[i] # Zero
          /\ user_inputs.reinvestment_rate[j] # Zero
          /\ IsFinite(forecast.Reinvestment[i]) /\ forecast.Reinvestment[i] # Zero
          /\ IsFinite(forecast.Reinvestment[j]) /\ forecast.Reinvestment[j] # Zero
    /\ forecast.Revenue[2] # forecast.Revenue[1]

\* C3: a returned forecast has 12 rows; the base-year row has a value only for
\* Revenue, Operating Margin, EBIT and Tax Rate; FCFF, Discount Factor and
\* Discounted FCFF have a value exactly in Year 1..Year 10; the terminal row has
\* EBIT after Tax and Reinvestment but no FCFF, Discount Factor, Discounted FCFF.
C3_RowStructure ==
    forecast.status = "ok" =>
        /\ \A c \in DOMAIN forecast \ {"status"} : DOMAIN forecast[c] = 0..TerminalPeriod
        /\ \A c \in {"Revenue", "Operating_Margin", "EBIT", "Tax_Rate"} : Present(forecast[c][0])
        /\ \A c \in DOMAIN forecast \ {"status", "Revenue", "Operating_Margin", "EBIT", "Tax_Rate"} :
              ~Present(forecast[c][0])
        /\ \A c \in {"FCFF", "Discount_Factor", "Discounted_FCFF"} :
              \A r \in 0..TerminalPeriod : Present(forecast[c][r]) <=> r \in Years
        /\ Present(forecast.EBIT_after_Tax[TerminalPeriod])
        /\ Present(forecast.Reinvestment[TerminalPeriod])

\* C4: in a returned forecast the Discount Factor of year i = 1..10 is
\* 1 / ((1 + wacc[1]) * ... * (1 + wacc[i])); the base-year and the terminal
\* row have none.
C4_DiscountFactor ==
    forecast.status = "ok" =>
        /\ LET ref == RefDiscountFactor
           IN  \A i \in Years : forecast.Discount_Factor[i] = ref[i]
        /\ ~Present(forecast.Discount_Factor[0])
        /\ ~Present(forecast.Discount_Factor[TerminalPeriod])

\* a forecast under discount rates that differ between years
C4_Witness ==
    /\ forecast.status = "ok"
    /\ \E i, j \in Years : user_inputs.wacc[i] # user_inputs.wacc[j]
    /\ IsFinite(forecast.Discount_Factor[NDates - 1])
    /\ forecast.Discount_Factor[NDates - 1] # One
    /\ forecast.Discount_Factor[NDates - 1] # forecast.Discount_Factor[1]

\* C5: a returned valuation has TV-FCFF = EBIT_after_tax[terminal] -
\* Reinvestment[terminal] and Terminal Value = TV-FCFF / (wacc[11] -
\* revenue_growth[11]), the last entries of the two lists.
C5_TerminalValue ==
    valuation.status = "ok" =>
        /\ valuation.TV_FCFF =
              FSub(RefEBITafterTax[TerminalPeriod], RefReinvestment[TerminalPeriod])
        /\ valuation.Terminal_Value =
              FDiv(valuation.TV_FCFF,
                   FSub(user_inputs.wacc[TerminalPeriod],
                        user_inputs.revenue_growth[TerminalPeriod]))

\* a valuation whose terminal rates differ from the Year-10 rates and whose
\* terminal value is finite and not zero
C5_Witness ==
    /\ valuation.status = "ok"
    /\ user_inputs.wacc[TerminalPeriod] # user_inputs.wacc[TerminalPeriod - 1]
    /\ IsFinite(valuation.Terminal_Value)
    /\ valuation.Terminal_Value # Zero
    /\ valuation.TV_FCFF # Zero

\* C6: a returned valuation has Discounted Terminal Value = Terminal Value *
\* 1 / ((1 + wacc[1]) * ... * (1 + wacc[10])), the terminal wacc not compounded,
\* and Total Firm Value = Sum of Discounted FCFFs of the years 1..10 +
\* Discounted Terminal Value.
C6_DiscountedTerminalValue ==
    valuation.status = "ok" =>
        /\ valuation.Discounted_Terminal_Value =
              FMul(valuation.Terminal_Value, RefDiscountFactor[NDates - 1])
        /\ valuation.Sum_of_Discounted_FCFFs = SumYears(forecast.Discounted_FCFF, NDates - 1)
        /\ valuation.Total_Firm_Value =
              FAdd(valuation.Sum_of_Discounted_FCFFs, valuation.Discounted_Terminal_Value)

\* a valuation with a finite, non-zero discounted terminal value under a terminal
\* wacc that would change it if compounded
C6_Witness ==
    /\ valuation.status = "ok"
    /\ user_inputs.wacc[TerminalPeriod] # Zero
    /\ IsFinite(valuation.Discounted_Terminal_Value)
    /\ valuation.Discounted_Terminal_Value # Zero
    /\ valuation.Discounted_Terminal_Value # valuation.Terminal_Value
    /\ valuation.Sum_of_Discounted_FCFFs # Zero

\* C7: a call of calculate_valuation with wacc[terminal] <= revenue_growth[terminal]
\* is flagged as an error and returns no Fair Value per Share.
C7_GordonConditionFlagged ==
    (/\ valuation.status # "none"
     /\ ValidShape(user_inputs)
     /\ FLe(user_inputs.wacc[TerminalPeriod], user_inputs.revenue_growth[TerminalPeriod]))
        => valuation.status # "ok"

\* C8: with a reinvestment_rate[i] of zero build_forecast_df and
\* calculate_valuation raise an error; no infinite or NaN Reinvestment reaches
\* FCFF, the sum of discounted FCFFs or the fair value.
C8_ZeroReinvestmentRateFlagged ==
    LET zero_rate == /\ ValidShape(user_inputs)
                     /\ \E i \in Years : user_inputs.reinvestment_rate[i] = Zero
    IN  /\ (forecast.status # "none" /\ zero_rate) => forecast.status # "ok"
        /\ (valuation.status # "none" /\ zero_rate) => valuation.status # "ok"
        /\ forecast.status = "ok" =>
              \A i \in Years : IsFinite(forecast.Reinvestment[i]) /\ IsFinite(forecast.FCFF[i])

\* C9: with shares_outstanding = 0 or a required fact missing
\* calculate_valuation raises an error; no call returns a NaN or infinite
\* Fair Value per Share.
C9_FairValueFinite ==
    /\ (/\ valuation.status # "none"
        /\ \/ bloomberg_data.Shares_outstanding = Zero
           \/ IsNone(bloomberg_data.Shares_outstanding))
          => valuation.status # "ok"
    /\ valuation.status = "ok" => IsFinite(valuation.Fair_Value_per_Share)

\* C10: a call of build_forecast_df with revenue_growth, operating_margin,
\* tax_rate or wacc of a length other than 11, or reinvestment_rate of a length
\* other than 10, raises an error and returns no forecast.
C10_WrongLengthRaises ==
    (forecast.status # "none" /\ ~ValidShape(user_inputs))
        => /\ forecast.status \in {"ValueError", "TypeError"}
           /\ DOMAIN forecast = {"status"}

\* a call with a list of the wrong length that pandas refused
C10_Witness ==
    /\ forecast.status = "ValueError"
    /\ ~ValidShape(user_inputs)

\* other amounts of Total debt and of Cash a fact base could carry
DebtValues == {Zero, R(2, 1), R(4, 1)}
CashValues == {Zero, R(2, 1), R(4, 1)}

\* C11: with the assumption set and every other fact fixed and
\* shares_outstanding > 0, Equity Value = Total Firm Value - Total debt + Cash
\* and Fair Value per Share = Equity Value / Shares outstanding, so the fair
\* value is strictly lower under a higher Total debt and strictly higher under
\* more Cash.
C11_FairValueMonotone ==
    (/\ valuation.status = "ok"
     /\ IsFinite(bloomberg_data.Shares_outstanding)
     /\ FLt(Zero, bloomberg_data.Shares_outstanding))
        =>
        /\ valuation.Equity_Value =
              FAdd(FSub(valuation.Total_Firm_Value, bloomberg_data.Total_debt),
                   bloomberg_data.Cash)
        /\ valuation.Fair_Value_per_Share =
              FDiv(valuation.Equity_Value, bloomberg_data.Shares_outstanding)
        /\ \A d \in DebtValues :
              LET other == calculate_valuation(
                               [bloomberg_data EXCEPT !.Total_debt = d], user_inputs)
              IN  /\ FLt(bloomberg_data.Total_debt, d) =>
                        FLt(other.Fair_Value_per_Share, valuation.Fair_Value_per_Share)
                  /\ FLt(d, bloomberg_data.Total_debt) =>
                        FLt(valuation.Fair_Value_per_Share, other.Fair_Value_per_Share)
        /\ \A c \in CashValues :
              LET other == calculate_valuation(
                               [bloomberg_data EXCEPT !.Cash = c], user_inputs)
              IN  /\ FLt(bloomberg_data.Cash, c) =>
                        FLt(valuation.Fair_Value_per_Share, other.Fair_Value_per_Share)
                  /\ FLt(c, bloomberg_data.Cash) =>
                        FLt(other.Fair_Value_per_Share, valuation.Fair_Value_per_Share)

\* C12: in a returned forecast under wacc values that are all positive the
\* Discount Factor does not rise from one year to the next:
\* DiscountFactor[i] >= DiscountFactor[i+1] for i = 1..9.
C12_DiscountFactorNonIncreasing ==
    (/\ forecast.status = "ok"
     /\ \A k \in 1..Len(user_inputs.wacc) : FLt(Zero, user_inputs.wacc[k]))
        => \A i \in 1..(NDates - 2) :
              FLe(forecast.Discount_Factor[i + 1], forecast.Discount_Factor[i])

\* a forecast under positive discount rates that differ between years
C12_Witness ==
    /\ forecast.status = "ok"
    /\ \A k \in 1..Len(user_inputs.wacc) : FLt(Zero, user_inputs.wacc[k])
    /\ \E i, j \in Years : user_inputs.wacc[i] # user_inputs.wacc[j]
    /\ FLt(forecast.Discount_Factor[NDates - 1], forecast.Discount_Factor[1])

\* C13: called again on the same FCFFModel with the same assumption set, in any
\* order with each other and with build_roic_df, build_forecast_df and
\* calculate_valuation return what they returned before; no call changes the
\* assumption set (the lists, roic_tv) or the fact base.
C13_CallsRepeatable ==
    [][/\ (forecast.status # "none" /\ forecast'.status # "none") => forecast' = forecast
       /\ (valuation.status # "none" /\ valuation'.status # "none") => valuation' = valuation
       /\ (\/ forecast'.status # "none" /\ forecast' # forecast
           \/ valuation'.status # "none" /\ valuation' # valuation
           \/ roic'.status # "none" /\ roic' # roic)
             => UNCHANGED <<bloomberg_data, user_inputs>>]_vars

\* all three methods have returned for an edited assumption set: every further
\* call is a repeated one
C13_Witness ==
    /\ forecast.status = "ok"
    /\ valuation.status = "ok"
    /\ roic.status = "ok"
    /\ edits > 0
    /\ IsFinite(valuation.Fair_Value_per_Share)

\* C15 (as stated): InvestedCapital[0] = invested_capital and InvestedCapital[i] =
\* InvestedCapital[i-1] + Reinvestment[i] for i = 1..9; the Year-10 row and the
\* terminal row carry no Invested Capital, Average Invested Capital or computed
\* ROIC figure.
C15_RollForwardStopsAtYear9 ==
    roic.status = "ok" =>
      LET reinv == RefReinvestment
          IC    == roic.Invested_Capital
      IN  /\ IC[0] = bloomberg_data.invested_capital
          /\ \A i \in 1..(NDates - 2) : IC[i] = FAdd(IC[i - 1], reinv[i])
          /\ \A r \in {NDates - 1, TerminalPeriod} :
                /\ ~Present(IC[r])
                /\ ~IsFinite(roic.Avg_Invested_Capital[r])
          /\ ~Present(roic.Return_on_Invested_Capital[NDates - 1])

\* C15 (amended): InvestedCapital[0] = invested_capital and InvestedCapital[i] =
\* InvestedCapital[i-1] + Reinvestment[i] for every year i = 1..10 whose
\* previous row holds a figure: the roll-forward runs through Year 10, whose row
\* carries Invested Capital, Average Invested Capital and a computed ROIC like
\* the years before it.  Only the terminal row carries no Invested Capital; its
\* Average Invested Capital cell holds the label and its ROIC is roic_tv.
C15_RollForwardThroughYear10 ==
    roic.status = "ok" =>
      LET reinv == RefReinvestment
          eat   == RefEBITafterTax
          IC    == roic.Invested_Capital
          Avg   == roic.Avg_Invested_Capital
          y10   == NDates - 1
      IN  /\ IC[0] = bloomberg_data.invested_capital
          /\ \A i \in Years : Present(IC[i - 1]) => IC[i] = FAdd(IC[i - 1], reinv[i])
          /\ (IsFinite(IC[y10 - 1]) /\ IsFinite(reinv[y10]))
                => /\ IsFinite(IC[y10])
                   /\ IsFinite(Avg[y10])
                   /\ Avg[y10] = FDiv(FAdd(IC[y10 - 1], IC[y10]), R(2, 1))
                   /\ roic.Return_on_Invested_Capital[y10] = FDiv(eat[y10], Avg[y10])
          /\ ~Present(IC[TerminalPeriod])
          /\ Avg[TerminalPeriod] = After10YearsLabel
          /\ roic.Return_on_Invested_Capital[TerminalPeriod] = user_inputs.roic_tv

\* a tracker whose capital still grows in Year 10
C15_Witness ==
    /\ roic.status = "ok"
    /\ IsFinite(roic.Invested_Capital[NDates - 1])
    /\ roic.Invested_Capital[NDates - 1] # roic.Invested_Capital[NDates - 2]
    /\ roic.Invested_Capital[1] # roic.Invested_Capital[0]
    /\ IsFinite(roic.Return_on_Invested_Capital[NDates - 1])

\* C16: in a returned tracker, for i = 1..9, AvgInvestedCapital[i] =
\* (InvestedCapital[i-1] + InvestedCapital[i]) / 2 and ROIC[i] =
\* EBIT_after_tax[i] / AvgInvestedCapital[i] with the EBIT after tax of the same
\* year; the base year has no ROIC and the terminal ROIC is roic_tv as given.
C16_AverageCapitalAndROIC ==
    roic.status = "ok" =>
      LET eat == RefEBITafterTax
          IC  == roic.Invested_Capital
          Avg == roic.Avg_Invested_Capital
      IN  /\ \A i \in 1..(NDates - 2) :
                /\ Avg[i] = FDiv(FAdd(IC[i - 1], IC[i]), R(2, 1))
                /\ roic.Return_on_Invested_Capital[i] = FDiv(eat[i], Avg[i])
          /\ ~Present(roic.Return_on_Invested_Capital[0])
          /\ roic.Return_on_Invested_Capital[TerminalPeriod] = user_inputs.roic_tv

\* a tracker with growing capital and returns that differ between years and
\* from roic_tv
C16_Witness ==
    /\ roic.status = "ok"
    /\ \A i \in 1..(NDates - 2) : IsFinite(roic.Return_on_Invested_Capital[i])
    /\ roic.Invested_Capital[1] # roic.Invested_Capital[0]
    /\ roic.Return_on_Invested_Capital[1] # roic.Return_on_Invested_Capital[2]
    /\ roic.Return_on_Invested_Capital[NDates - 2] # user_inputs.roic_tv
    /\ roic.Avg_Invested_Capital[2] # roic.Invested_Capital[2]

\* C17: the ROIC tracker is not fed back: a call of build_roic_df changes
\* neither the fact base nor the assumption set nor a result already returned,
\* and every valuation returned is the one calculate_valuation returns under
\* any other invested_capital.
C17_TrackerNotFedBack ==
    [][/\ (roic'.status # "none" /\ roic' # roic)
             => UNCHANGED <<bloomberg_data, user_inputs, forecast, valuation>>
       /\ (valuation'.status # "none" /\ valuation' # valuation)
             => \A ic \in ICValues :
                   valuation' = calculate_valuation(
                                    [bloomberg_data' EXCEPT !.invested_capital = ic],
                                    user_inputs')]_vars

\* a valuation next to a tracker that returned, under an invested capital other
\* than the one of the first fact base
C17_Witness ==
    /\ roic.status = "ok"
    /\ valuation.status = "ok"
    /\ IsFinite(valuation.Fair_Value_per_Share)
    /\ bloomberg_data.invested_capital # FactBase0.invested_capital
    /\ roic.Invested_Capital[1] # FactBase0.invested_capital

\* C14: a Monte Carlo run (simulate_all, then calculate_mc) changes neither the
\* fact base nor the sampling configuration (params, tax_rate, n_iter): every
\* trial is sampled from the configuration and valued on the fact base the run
\* started with, and both are the same after the run.
C14_RunLeavesFactsAndConfig ==
    [][/\ (mc_pc' # mc_pc \/ sim_inputs' # sim_inputs \/ fair_values' # fair_values)
             => UNCHANGED <<bloomberg_data, params, mc_tax_rate, n_iter>>
       /\ sim_inputs' # sim_inputs
             => \A t \in 1..Len(sim_inputs') :
                   sim_inputs'[t] = SimInput(params, mc_tax_rate, raw_draws'[t])
       /\ fair_values' # fair_values
             => \A t \in 1..Len(fair_values') :
                   fair_values'[t] =
                      calculate_valuation(bloomberg_data, sim_inputs'[t]).Fair_Value_per_Share]_vars

\* a finished run of several trials whose samples differ
C14_Witness ==
    /\ mc_pc = "ready"
    /\ n_iter > 1
    /\ Len(sim_inputs) = n_iter
    /\ Len(fair_values) = n_iter
    /\ sim_inputs[1] # sim_inputs[2]
    /\ fair_values[1] # fair_values[2]
    /\ \A t \in 1..n_iter : IsFinite(fair_values[t])

-----------------------------------------------------------------------------
\* the trials of the sample just drawn whose revenue_growth is structured
StructuredTrials ==
    IF /\ mc_pc = "resampled"
       /\ Branch("revenue_growth", params["revenue_growth"]) = "structured"
    THEN 1..Len(sim_inputs)
    ELSE {}

StrictlyBetween(x, a, b) ==
    \/ FLt(a, x) /\ FLt(x, b)
    \/ FLt(b, x) /\ FLt(x, a)

\* C18: every vector of _simulate_structured_growth has 11 entries in the
\* phasing 5 + 4 + 1 + 1 for the clipped draws g1 and g_terminal: entries 1..5
\* equal g1, entries 6..9 are evenly spaced and, when g1 differs from
\* g_terminal, lie strictly between the two, entries 10 and 11 equal g_terminal
C18_StructuredGrowthPhasing ==
    \A t \in StructuredTrials :
        LET cfg        == params["revenue_growth"]
            g          == sim_inputs[t]["revenue_growth"]
            g1         == ClipCfg(raw_draws[t]["revenue_growth"][1], cfg)
            g_terminal == ClipCfg(raw_draws[t]["revenue_growth"][2], cfg)
        IN  /\ Len(g) = NDates
            /\ \A k \in 1..5 : g[k] = g1
            /\ \A k \in 5..9 : FSub(g[k + 1], g[k]) = FSub(g[6], g[5])
            /\ g1 # g_terminal => \A k \in 6..9 : StrictlyBetween(g[k], g1, g_terminal)
            /\ g1 = g_terminal => \A k \in 6..9 : g[k] = g1
            /\ g[10] = g_terminal
            /\ g[11] = g_terminal

\* a sampled vector whose two draws were both clipped, to different bounds
C18_Witness ==
    \E t \in StructuredTrials :
        LET cfg == params["revenue_growth"]
            d   == raw_draws[t]["revenue_growth"]
            g   == sim_inputs[t]["revenue_growth"]
        IN  /\ ClipCfg(d[1], cfg) # d[1]
            /\ ClipCfg(d[2], cfg) # d[2]
            /\ g[1] # g[11]
            /\ FLt(g[1], g[6]) /\ FLt(g[9], g[10])

-----------------------------------------------------------------------------
\* the trials of the sample just drawn, from the configuration params
SampledTrials == IF mc_pc = "resampled" THEN 1..Len(sim_inputs) ELSE {}

\* the configured bounds of a key, an unconfigured one unbounded
LowerBound(cfg) == IF "clip_min" \in DOMAIN cfg THEN cfg["clip_min"] ELSE NInf
UpperBound(cfg) == IF "clip_max" \in DOMAIN cfg THEN cfg["clip_max"] ELSE Inf

\* min(max(draw, clip_min), clip_max)
Clamped(draw, cfg) ==
    LET raised == IF FLt(draw, LowerBound(cfg)) THEN LowerBound(cfg) ELSE draw
    IN  IF FLt(UpperBound(cfg), raised) THEN UpperBound(cfg) ELSE raised

InBounds(x, cfg) ==
    /\ IsFinite(x)
    /\ ~FLt(x, LowerBound(cfg))
    /\ ~FLt(UpperBound(cfg), x)

BoundsOrdered(cfg) == ~FLt(UpperBound(cfg), LowerBound(cfg))

\* the keys whose entry of sim_input is sampled: line 104 overwrites "tax_rate"
SampledKeys == DOMAIN params \ {"tax_rate"}

\* the entries of sim_inputs[t][key] that come from one draw each, as
\* <<entry, draw>>, and the entries that are interpolated
DrawnEntries(t, key) ==
    LET branch == Branch(key, params[key])
        s      == sim_inputs[t][key]
        d      == raw_draws[t][key]
    IN  CASE branch = "structured" ->
                {<<s[k], d[1]>> : k \in 1..5} \cup {<<s[k], d[2]>> : k \in 10..11}
          [] branch = "terminal" ->
                {<<s[k], d[1][k]>> : k \in 1..(Len(s) - 1)} \cup {<<s[Len(s)], d[2]>>}
          [] branch = "lognormal" -> {<<s[k], d[k]>> : k \in 1..Len(s)}
          [] branch = "scalar"    -> {<<s, d>>}

InterpolatedEntries(t, key) ==
    IF Branch(key, params[key]) = "structured"
    THEN {sim_inputs[t][key][k] : k \in 6..9}
    ELSE {}

-----------------------------------------------------------------------------
\* revenue_growth is configured with clip_min = clip_max
DegenerateGrowthBounds ==
    /\ {"clip_min", "clip_max"} \subseteq DOMAIN params["revenue_growth"]
    /\ params["revenue_growth"]["clip_min"] = params["revenue_growth"]["clip_max"]

\* C20: with revenue_growth configured with clip_min = clip_max = c, every
\* sampled structured growth vector is c in all 11 positions, whatever the draws
C20_DegenerateBoundsGiveConstant ==
    DegenerateGrowthBounds =>
        \A t \in StructuredTrials :
            sim_inputs[t]["revenue_growth"] =
                Const(NDates, params["revenue_growth"]["clip_min"])

\* such a sample whose two draws lie on either side of c
C20_Witness ==
    /\ DegenerateGrowthBounds
    /\ \E t \in StructuredTrials :
          LET c == params["revenue_growth"]["clip_min"]
              d == raw_draws[t]["revenue_growth"]
          IN  /\ FLt(d[1], c) /\ FLt(c, d[2])
              /\ sim_inputs[t]["revenue_growth"][6] = c

-----------------------------------------------------------------------------
\* a number is a pair, so a sequence of 10 or 11 numbers differs from a number
\* by its length
IsNumber(x) == Len(x) = 2 /\ x[2] \in Int

\* C21: whatever the client configured with set_param, every element of
\* sim_inputs has the shape of an assumption set: revenue_growth,
\* operating_margin, wacc and tax_rate of length 11, reinvestment_rate of
\* length 10, roic_tv a scalar
C21_SampleHasAssumptionSetShape ==
    \A t \in SampledTrials :
        /\ \A key \in {"revenue_growth", "operating_margin", "wacc", "tax_rate"} :
              Len(sim_inputs[t][key]) = NDates
        /\ Len(sim_inputs[t]["reinvestment_rate"]) = NDates - 1
        /\ IsNumber(sim_inputs[t]["roic_tv"])

\* C22: in every sampled assumption set tax_rate is the rate given to the
\* constructor in all 11 periods, the same in every trial, also when the client
\* configured a distribution under the key "tax_rate"
C22_TaxRateConstant ==
    \A t \in SampledTrials :
        /\ Len(sim_inputs[t]["tax_rate"]) = NDates
        /\ \A k \in 1..NDates : sim_inputs[t]["tax_rate"][k] = mc_tax_rate
        /\ \A u \in SampledTrials : sim_inputs[u]["tax_rate"] = sim_inputs[t]["tax_rate"]

\* a sample of several trials with different draws, drawn after the client
\* configured mean and std for "tax_rate"
C22_Witness ==
    /\ Len(sim_inputs) > 1
    /\ "tax_rate" \in DOMAIN params
    /\ \E t, u \in SampledTrials :
          /\ sim_inputs[t]["roic_tv"] # sim_inputs[u]["roic_tv"]
          /\ raw_draws[t]["tax_rate"] # raw_draws[u]["tax_rate"]
          /\ raw_draws[t]["tax_rate"] # mc_tax_rate

-----------------------------------------------------------------------------
\* a run has returned: the constructor, or simulate_all and calculate_mc again
RunDone == mc_pc = "ready" /\ params = DefaultParams

\* C23: with the default sampling configuration a run with n_iter = N leaves
\* N sampled sets and N fair values, one per trial in trial order, each a
\* finite number, whatever values inside the clip bounds were drawn
C23_RunYieldsFiniteFairValues ==
    RunDone =>
        /\ Len(sim_inputs) = n_iter
        /\ Len(fair_values) = n_iter
        /\ \A t \in 1..n_iter :
              /\ fair_values[t] =
                    calculate_valuation(bloomberg_data, sim_inputs[t]).Fair_Value_per_Share
              /\ IsFinite(fair_values[t])

-----------------------------------------------------------------------------
\* C24: the trials are exchangeable: valuing the sampled sets in another order
\* gives the same fair values in that order, and each fair value is the
\* valuation of its own sampled set on the fact base
C24_TrialsExchangeable ==
    [][mc_pc' = "reordered" =>
          /\ \A p \in TrialOrders(n_iter) :
                sim_inputs' = [t \in 1..n_iter |-> sim_inputs[p[t]]]
                   => fair_values' = [t \in 1..n_iter |-> fair_values[p[t]]]
          /\ \A t \in 1..n_iter :
                fair_values'[t] =
                   calculate_valuation(bloomberg_data, sim_inputs'[t]).Fair_Value_per_Share]_vars

\* the trials of a sample valued in another order, with different fair values
C24_Witness ==
    /\ mc_pc = "reordered"
    /\ n_iter > 1
    /\ \E t \in 1..n_iter : \E u \in (t + 1)..n_iter :
          /\ IsFinite(fair_values[t]) /\ IsFinite(fair_values[u])
          /\ fair_values[t] # fair_values[u]
          /\ raw_draws[t] = TrialDraws(params, "mid", "alt")
          /\ raw_draws[u] = TrialDraws(params, "mid", "mid")

-----------------------------------------------------------------------------
\* the configuration holds a distribution parameter no distribution has: a
\* negative deviation, or a lognormal mean that is not positive
InvalidDistribution(prm) ==
    \E key \in DOMAIN prm :
        \/ \E dev \in Deviations(Branch(key, prm[key])) \cap DOMAIN prm[key] :
              FLt(prm[key][dev], Zero)
        \/ /\ Branch(key, prm[key]) = "lognormal"
           /\ "mean" \in DOMAIN prm[key]
           /\ ~FLt(Zero, prm[key]["mean"])

\* C25: under a configuration with invalid distribution parameters the run
\* halts with an error: no step stores a sample or fair values
C25_InvalidConfigHalts ==
    [][InvalidDistribution(params) /\ params' = params
          => sim_inputs' = sim_inputs /\ fair_values' = fair_values]_vars

\* C30: set_param updates the entry of one key of params and leaves the sample
\* and the fair values as they are; fair_values changes only in a calculate_mc
\* that follows a simulate_all, and is then the valuation of a sample drawn
\* from the present configuration
C30_SetParamNeedsRerun ==
    [][/\ params' # params =>
             /\ UNCHANGED <<sim_inputs, fair_values, raw_draws>>
             /\ DOMAIN params \subseteq DOMAIN params'
             /\ \E key \in DOMAIN params' :
                   /\ \A k \in DOMAIN params \ {key} : params'[k] = params[k]
                   /\ key \in DOMAIN params =>
                         DOMAIN params[key] \subseteq DOMAIN params'[key]
       /\ sim_inputs' # sim_inputs => fair_values' = fair_values
       /\ fair_values' # fair_values =>
             /\ mc_pc = "resampled"
             /\ sim_inputs' = sim_inputs
             /\ sim_inputs = Simulations(params, mc_tax_rate, raw_draws)
             /\ \A t \in 1..n_iter :
                   fair_values'[t] =
                      calculate_valuation(bloomberg_data, sim_inputs[t]).Fair_Value_per_Share]_vars

\* after set_param("reinvestment_rate", mean=0), simulate_all and calculate_mc:
\* fair values that differ from those of the constructor
C30_Witness ==
    /\ mc_pc = "ready"
    /\ params # DefaultParams
    /\ params["reinvestment_rate"]["mean"] = Zero
    /\ \A t \in 1..n_iter :
          /\ raw_draws[t]["reinvestment_rate"] = Const(10, Zero)
          /\ sim_inputs[t]["reinvestment_rate"] = Const(10, Zero)
          /\ ~IsFinite(fair_values[t])


-----------------------------------------------------------------------------
(* Claims about the dashboard                                               *)

\* a step in which the combo box changed the company from A to B
SwitchStep == tab'.last_op = "select" /\ tab'.current_stock # tab.current_stock

\* what B's own record gives the table: its saved inputs, or its defaults
OwnInputs(t, stock) ==
    IF t.user_inputs[stock] # NoInputs THEN t.user_inputs[stock]
    ELSE DefaultAssumptions(stock)

\* C26: when the selection changes from company A to company B, the values
\* the table shows for A are saved under user_inputs[A], and user_inputs[B]
\* is not overwritten with them: B keeps the inputs of its own table.
C26_InputsStoredPerCompany ==
    [][SwitchStep /\ ReadTable(tab.table) # ParseError
         => /\ tab'.user_inputs[tab.current_stock] = ReadTable(tab.table)
            /\ tab'.user_inputs[tab'.current_stock] =
                   ReadTable(set_input_values(OwnInputs(tab, tab'.current_stock)))]_vars

\* C27: selecting a company loads that company's own saved inputs if it
\* has any and its default assumptions otherwise, never the values of the
\* other company.
C27_SelectionLoadsOwnInputs ==
    [][SwitchStep
         => tab'.table = set_input_values(OwnInputs(tab, tab'.current_stock))]_vars

\* C28: when calculate_fair_value runs while an input cell is empty or not
\* a number, the error is shown to the user, no input set is valued and the
\* fair value label is not written.
C28_UnreadableTableSurfacesError ==
    [][tab'.last_op = "calculate" /\ ReadTable(tab.table) = ParseError
         => /\ tab'.warned
            /\ tab'.valued = NoInputs
            /\ tab'.fair_value_label = tab.fair_value_label]_vars

\* C29: on the constructed dashboard the stock of the window is the stock
\* of the tab, the Monte Carlo tab is enabled exactly when that stock is
\* NVDA, and no simulation was launched while another company was selected.
C29_MonteCarloTabOnlyForNVDA ==
    window.pc = "up"
        => /\ window.stock = tab.current_stock
           /\ window.mc_tab_enabled <=> (window.stock = "NVDA")
           /\ window.simulated_for \in {"none", "NVDA"}

\* a simulation was launched for NVDA and Microsoft was selected afterwards
C29_Witness ==
    /\ window.pc = "up"
    /\ window.simulated_for = "NVDA"
    /\ tab.current_stock = "MSFT"
    /\ ~window.mc_tab_enabled

====
